---- MODULE Spec2Model ----
(***************************************************************************)
(* Model of api/index.py: the two Flask routes that turn a PDF upload or a *)
(* raw text into a spreadsheet of multiple-choice questions.               *)
(*                                                                         *)
(* Three specifications share the variables:                               *)
(*   Spec       one request, every input shape, full service behaviour;    *)
(*   SpecConc   two concurrent PDF-route requests over the shared /tmp     *)
(*              directory and the process-wide genai configuration;        *)
(*   SpecChunk  the chunk loop of process_text_and_create_excel on texts   *)
(*              held character by character.                               *)
(***************************************************************************)
EXTENDS Integers, Sequences, FiniteSets, TLC

VARIABLES
    req,            \* req[r]: the HTTP request r as received (its fields)
    pc,             \* pc[r]: position of request r's handler
    fs,             \* the /tmp directory: path -> file content or NoFile
    configured_key, \* the process-wide key set by genai.configure
    service,        \* the replies the generation service may give in this run
    num_options,    \* local num_options of the handler of r
    full_text,      \* local full_text / text_input handed to the pipeline
    i,              \* loop variable of "for i in range(0, text_len, chunk_size)"
    attempt,        \* loop variable of "for i in range(retries)"
    all_data,       \* local all_data of process_text_and_create_excel
    resp,           \* the response of request r, NoResp until it ends
    log,            \* history: per chunk, the attempts made and the records it gave
    effects,        \* history: external effects request r has performed
    keys_used,      \* history: the credentials r's generation calls ran under
    removed,        \* history: owners of the files os.remove deleted for r
    writer_fault,   \* history: the spreadsheet writer raised for r
    text,           \* SpecChunk: the text, character by character
    chunks          \* SpecChunk: the chunks handed to call_gemini_api so far

vars == <<req, pc, fs, configured_key, service, num_options, full_text, i,
          attempt, all_data, resp, log, effects, keys_used, removed,
          writer_fault, text, chunks>>

\* ------------------------------------------------------------------ bounds
MaxChunks == 2      \* longest text of Spec, in chunks
MaxRecs == 1        \* most records one generation reply carries
MaxKilo == 7        \* longest text of SpecChunk, in thousands of characters

\* ------------------------------------------------------- program constants
chunk_size == 3000
retries == 3

Reqs == {1, 2}

Min(a, b) == IF a < b THEN a ELSE b

\* ------------------------------------------------------------ Python lists
Contains(s, x) == \E k \in 1..Len(s) : s[k] = x

\* list.insert(idx, x) for 0 <= idx
InsertAt(s, idx, x) ==
    LET at == Min(idx, Len(s))
    IN  SubSeq(s, 1, at) \o <<x>> \o SubSeq(s, at + 1, Len(s))

\* list.remove(x), for a list that contains x: drops the first occurrence
RemoveFirst(s, x) ==
    LET k == CHOOSE j \in 1..Len(s) : s[j] = x /\ \A h \in 1..(j - 1) : s[h] # x
    IN  SubSeq(s, 1, k - 1) \o SubSeq(s, k + 1, Len(s))

RECURSIVE Concat(_)
Concat(ss) == IF ss = <<>> THEN <<>> ELSE Head(ss) \o Concat(Tail(ss))

Range(s) == {s[k] : k \in 1..Len(s)}

\* ------------------------------------------------------------- MCQ records
BaseColumns == <<"question", "option_a", "option_b", "option_c", "option_d",
                 "correct_answer", "explanation", "topic", "chapter", "subject">>

Keys4 == Range(BaseColumns)
Keys5 == Keys4 \cup {"option_e"}

\* the key sets a generated record may carry
RecKinds == {Keys5, Keys4}

RECURSIVE SeqsUpTo(_, _)
SeqsUpTo(S, n) ==
    IF n = 0 THEN {<<>>}
    ELSE LET shorter == SeqsUpTo(S, n - 1)
         IN  shorter \cup {Append(s, x) : s \in {t \in shorter : Len(t) = n - 1}, x \in S}

\* replies of the generation service to one call: the call raises (network,
\* service or JSON error), the JSON is not a list, or it is a list of records
Replies ==
    {[kind |-> "exc", recs |-> <<>>], [kind |-> "nonlist", recs |-> <<>>]}
    \cup {[kind |-> "list", recs |-> l] : l \in SeqsUpTo(RecKinds, MaxRecs)}

\* ---------------------------------------------------------------- requests
OwnKey(r) == IF r = 1 THEN "key1" ELSE "key2"

\* file names a client may upload under
FileNames == {"a.pdf", "../a.pdf", "b.pdf"}

\* werkzeug's secure_filename on those names, joined to /tmp: path separators
\* become separators of words and leading dots and underscores are stripped
secure_filename(name) ==
    CASE name = "a.pdf" -> "a.pdf"
      [] name = "../a.pdf" -> "a.pdf"
      [] name = "b.pdf" -> "b.pdf"

Filepath(name) == "/tmp/" \o secure_filename(name)

Paths == {Filepath(n) : n \in FileNames}

\* text lengths of Spec: one character, exactly one chunk, and one character
\* past each chunk boundary up to MaxChunks chunks
TextLens ==
    {1, chunk_size} \cup {k * chunk_size + 1 : k \in 1..(MaxChunks - 1)}

\* Python None for a text; the empty string is [owner |-> r, len |-> 0]
NoText == [owner |-> 0, len |-> 0 - 1]
NoDoc == [owner |-> 0, kind |-> "none", len |-> 0]
NoFile == [owner |-> 0, kind |-> "none", len |-> 0]

\* "not x" of Python on a text: None and "" are both falsy
Falsy(t) == t.len <= 0

\* documents of request r: unreadable, readable without text, readable
Docs(r) ==
    {[owner |-> r, kind |-> "corrupt", len |-> 0], [owner |-> r, kind |-> "ok", len |-> 0]}
    \cup {[owner |-> r, kind |-> "ok", len |-> l] : l \in TextLens}

Texts(r) ==
    {NoText, [owner |-> r, len |-> 0]} \cup {[owner |-> r, len |-> l] : l \in TextLens}

\* the numOptions field as sent: absent, or a form/JSON value
NumOptionInputs == {"absent", "4", "5", "abc"}

\* int(request.form.get("numOptions", 5)): the default when absent, the
\* integer the value spells, ValueError otherwise
IntOf(raw) ==
    CASE raw = "absent" -> [ok |-> TRUE, val |-> 5]
      [] raw = "4" -> [ok |-> TRUE, val |-> 4]
      [] raw = "5" -> [ok |-> TRUE, val |-> 5]
      [] OTHER -> [ok |-> FALSE, val |-> 0]

NoRequest ==
    [route |-> "none", hasPdf |-> FALSE, filename |-> "a.pdf", doc |-> NoDoc,
     bodyOk |-> TRUE, text |-> NoText, apiKey |-> "", numOptions |-> "absent"]

PdfRequests(r) ==
    {[route |-> "pdf", hasPdf |-> FALSE, filename |-> "a.pdf", doc |-> NoDoc,
      bodyOk |-> TRUE, text |-> NoText, apiKey |-> k, numOptions |-> n] :
        k \in {"", OwnKey(r)}, n \in NumOptionInputs}
    \cup
    {[route |-> "pdf", hasPdf |-> TRUE, filename |-> f, doc |-> d,
      bodyOk |-> TRUE, text |-> NoText, apiKey |-> kn[1], numOptions |-> kn[2]] :
        f \in {"a.pdf"}, d \in Docs(r), kn \in {"", OwnKey(r)} \X NumOptionInputs}

TextRequests(r) ==
    {[route |-> "text", hasPdf |-> FALSE, filename |-> "a.pdf", doc |-> NoDoc,
      bodyOk |-> FALSE, text |-> NoText, apiKey |-> "", numOptions |-> "absent"]}
    \cup
    {[route |-> "text", hasPdf |-> FALSE, filename |-> "a.pdf", doc |-> NoDoc,
      bodyOk |-> TRUE, text |-> t, apiKey |-> kn[1], numOptions |-> kn[2]] :
        t \in Texts(r), kn \in {"", OwnKey(r)} \X NumOptionInputs}

\* the well-formed uploads SpecConc runs side by side
ConcRequests(r) ==
    {[route |-> "pdf", hasPdf |-> TRUE, filename |-> f,
      doc |-> [owner |-> r, kind |-> "ok", len |-> 1],
      bodyOk |-> TRUE, text |-> NoText, apiKey |-> OwnKey(r), numOptions |-> "absent"] :
        f \in FileNames}

ConcReplies ==
    {[kind |-> "exc", recs |-> <<>>], [kind |-> "list", recs |-> <<Keys5>>]}

\* --------------------------------------------------------------- responses
NoResp == [kind |-> "none", status |-> 0, error |-> "", cols |-> <<>>, rows |-> <<>>]

\* jsonify({"error": msg}), status
ErrorResp(status, msg) ==
    [kind |-> "json", status |-> status, error |-> msg, cols |-> <<>>, rows |-> <<>>]

\* an exception that leaves the view function: Flask renders werkzeug's
\* BadRequest as its own 400 page and any other exception as a 500 page,
\* neither with an {error: message} body
Unhandled(exc) ==
    [kind |-> "exception", status |-> IF exc = "BadRequest" THEN 400 ELSE 500,
     error |-> exc, cols |-> <<>>, rows |-> <<>>]

\* send_file(excel_file, ...) of the table
FileResp(table) ==
    [kind |-> "file", status |-> 200, error |-> "", cols |-> table.cols, rows |-> table.rows]

NoPdfMsg == "No PDF file provided."
NoKeyMsg == "API key is required."
NoTextOrKeyMsg == "Text input and API key are required."
NoExtractMsg == "Could not extract text from PDF."
NoDataMsg == "No data was generated from the provided text."
ExcelErrorMsg == "An error occurred while creating the Excel file"

Respond(r, response) ==
    /\ resp' = [resp EXCEPT ![r] = response]
    /\ pc' = [pc EXCEPT ![r] = "done"]

\* lines 83-88: the locals of process_text_and_create_excel
StartProcessing(r, t, n) ==
    /\ full_text' = [full_text EXCEPT ![r] = t]
    /\ num_options' = [num_options EXCEPT ![r] = n]
    /\ i' = [i EXCEPT ![r] = 0]
    /\ all_data' = [all_data EXCEPT ![r] = <<>>]
    /\ pc' = [pc EXCEPT ![r] = "loop"]

\* ------------------------------------------------------ the result table
\* lines 102-109: the list as written, then insert(4, "option_e") for five
\* options and remove("option_e") otherwise; remove raises ValueError when
\* the list does not hold the value
ColumnOrder(n) ==
    IF n = 5
    THEN [ok |-> TRUE, order |-> InsertAt(BaseColumns, 4, "option_e")]
    ELSE IF Contains(BaseColumns, "option_e")
         THEN [ok |-> TRUE, order |-> RemoveFirst(BaseColumns, "option_e")]
         ELSE [ok |-> FALSE, order |-> <<>>]

\* pd.DataFrame(all_data).columns, as a set: every key some record carries
FrameColumns(data) == UNION {data[k].keys : k \in 1..Len(data)}

\* line 111: [col for col in column_order if col in df.columns]
ExistingColumns(order, data) ==
    LET present(c) == c \in FrameColumns(data)
    IN  SelectSeq(order, present)

\* lines 112-113: df[existing_columns] with the S.No column put first
Table(order, data) ==
    LET existing == ExistingColumns(order, data)
    IN  [cols |-> <<"S.No">> \o existing,
         rows |-> [k \in 1..Len(data) |->
                     [sno |-> k, keys |-> data[k].keys \cap Range(existing),
                      src |-> data[k].src]]]

\* a check that never finds the data empty
NoDataNever(data) == FALSE

\* line 96: "if not all_data"
NoData(data) == data = <<>>

\* giving up one failure later
GiveUpLate(n) == n >= retries

\* line 77: "if i >= retries - 1"
GiveUp(n) == n >= retries - 1

\* line 90: the loop "for i in range(0, text_len, chunk_size)" has a next value
InRange(k, text_len) == k < text_len

\* line 90: the step of that range
NextStart(k) == k + chunk_size

\* lines 93-94: "if chunk_data: all_data.extend(chunk_data)"
Extend(data, chunk_data) == IF chunk_data # <<>> THEN data \o chunk_data ELSE data

\* ------------------------------------------------------------------ PDF route
\* lines 134-145: the checks of the PDF route up to the file path
PdfRouteEntry(r) ==
    /\ pc[r] = "start"
    /\ req[r].route = "pdf"
    /\ LET n == IntOf(req[r].numOptions)
       IN  IF ~req[r].hasPdf
           THEN Respond(r, ErrorResp(400, NoPdfMsg)) /\ UNCHANGED num_options
           ELSE IF ~n.ok
           THEN Respond(r, Unhandled("ValueError")) /\ UNCHANGED num_options
           ELSE IF req[r].apiKey = ""
           THEN Respond(r, ErrorResp(400, NoKeyMsg)) /\ UNCHANGED num_options
           ELSE /\ pc' = [pc EXCEPT ![r] = "save"]
                /\ num_options' = [num_options EXCEPT ![r] = n.val]
                /\ UNCHANGED resp
    /\ UNCHANGED <<req, fs, configured_key, service, full_text, i, attempt, all_data,
                   log, effects, keys_used, removed, writer_fault, text, chunks>>

\* what pdf_file.save(filepath) may do: write the whole upload, raise before
\* the file exists, or raise after part of it is written (a full disk)
SaveOutcomes == {"saved", "fault_before", "fault_after"}

\* line 146: pdf_file.save(filepath), outside any try
PdfSave(r) ==
    /\ pc[r] = "save"
    /\ \E outcome \in SaveOutcomes :
        LET path == Filepath(req[r].filename)
            partial == [owner |-> r, kind |-> "partial", len |-> 0]
        IN  /\ fs' = CASE outcome = "saved" -> [fs EXCEPT ![path] = req[r].doc]
                       [] outcome = "fault_after" -> [fs EXCEPT ![path] = partial]
                       [] OTHER -> fs
            /\ effects' = IF outcome = "fault_before" THEN effects
                          ELSE [effects EXCEPT ![r] = @ \cup {"write"}]
            /\ IF outcome = "saved"
               THEN pc' = [pc EXCEPT ![r] = "extract"] /\ UNCHANGED resp
               ELSE Respond(r, Unhandled("OSError"))
    /\ UNCHANGED <<req, configured_key, service, num_options, full_text, i, attempt,
                   all_data, log, keys_used, removed, writer_fault, text, chunks>>

\* lines 43-51: the text of the file now at pdf_path, None when it cannot be
\* opened or parsed
extract_text_from_pdf(file) ==
    IF file.kind = "ok" THEN [owner |-> file.owner, len |-> file.len] ELSE NoText

\* line 148
PdfExtract(r) ==
    /\ pc[r] = "extract"
    /\ full_text' = [full_text EXCEPT
                       ![r] = extract_text_from_pdf(fs[Filepath(req[r].filename)])]
    /\ effects' = [effects EXCEPT ![r] = @ \cup {"extract"}]
    /\ pc' = [pc EXCEPT ![r] = "remove"]
    /\ UNCHANGED <<req, fs, configured_key, service, num_options, i, attempt, all_data,
                   resp, log, keys_used, removed, writer_fault, text, chunks>>

\* lines 149-154: os.remove(filepath), the check of the extracted text and the
\* entry into process_text_and_create_excel
PdfRemove(r) ==
    /\ pc[r] = "remove"
    /\ LET path == Filepath(req[r].filename)
       IN  IF fs[path] = NoFile
           THEN /\ Respond(r, Unhandled("FileNotFoundError"))
                /\ UNCHANGED <<fs, removed, full_text, num_options, i, all_data>>
           ELSE /\ fs' = [fs EXCEPT ![path] = NoFile]
                /\ removed' = [removed EXCEPT ![r] = @ \cup {fs[path].owner}]
                /\ IF Falsy(full_text[r])
                   THEN /\ Respond(r, ErrorResp(500, NoExtractMsg))
                        /\ UNCHANGED <<full_text, num_options, i, all_data>>
                   ELSE /\ StartProcessing(r, full_text[r], num_options[r])
                        /\ UNCHANGED resp
    /\ UNCHANGED <<req, configured_key, service, attempt, log, effects, keys_used,
                   writer_fault, text, chunks>>

\* ----------------------------------------------------------------- text route
\* lines 168-176: request.json, the three fields, the check and the entry
\* into process_text_and_create_excel
TextRouteEntry(r) ==
    /\ pc[r] = "start"
    /\ req[r].route = "text"
    /\ LET n == IntOf(req[r].numOptions)
       IN  IF ~req[r].bodyOk
           THEN /\ Respond(r, Unhandled("BadRequest"))
                /\ UNCHANGED <<full_text, num_options, i, all_data>>
           ELSE IF ~n.ok
           THEN /\ Respond(r, Unhandled("ValueError"))
                /\ UNCHANGED <<full_text, num_options, i, all_data>>
           ELSE IF Falsy(req[r].text) \/ req[r].apiKey = ""
           THEN /\ Respond(r, ErrorResp(400, NoTextOrKeyMsg))
                /\ UNCHANGED <<full_text, num_options, i, all_data>>
           ELSE /\ StartProcessing(r, req[r].text, n.val)
                /\ UNCHANGED resp
    /\ UNCHANGED <<req, fs, configured_key, service, attempt, log, effects, keys_used,
                   removed, writer_fault, text, chunks>>

\* ------------------------------------------- process_text_and_create_excel
\* lines 90-92: the head of the chunk loop and the entry into call_gemini_api
LoopHead(r) ==
    /\ pc[r] = "loop"
    /\ IF InRange(i[r], full_text[r].len)
       THEN /\ pc' = [pc EXCEPT ![r] = "configure"]
            /\ attempt' = [attempt EXCEPT ![r] = 0]
            /\ log' = [log EXCEPT
                         ![r] = Append(@, [start |-> i[r], att |-> <<>>, recs |-> <<>>])]
       ELSE /\ pc' = [pc EXCEPT ![r] = "build"]
            /\ UNCHANGED <<attempt, log>>
    /\ UNCHANGED <<req, fs, configured_key, service, num_options, full_text, i, all_data,
                   resp, effects, keys_used, removed, writer_fault, text, chunks>>

\* line 60: genai.configure(api_key=api_key) sets the key of the process
Configure(r) ==
    /\ pc[r] = "configure"
    /\ configured_key' = req[r].apiKey
    /\ pc' = [pc EXCEPT ![r] = "generate"]
    /\ UNCHANGED <<req, fs, service, num_options, full_text, i, attempt, all_data, resp,
                   log, effects, keys_used, removed, writer_fault, text, chunks>>

\* the records of a reply, each marked with the chunk it was generated from
Tagged(recs, start) == [k \in 1..Len(recs) |-> [keys |-> recs[k], src |-> start]]

\* lines 61-79 and 92-94: one attempt under the key configured at this
\* moment; a reply that parses ends the chunk, an exception retries until
\* the last attempt
Generate(r) ==
    /\ pc[r] = "generate"
    /\ \E reply \in service :
        LET failed == reply.kind = "exc"
            outcome == IF failed THEN "exc" ELSE "parsed"
            chunk_data == IF reply.kind = "list" THEN Tagged(reply.recs, i[r]) ELSE <<>>
            ends == ~failed \/ GiveUp(attempt[r])
            last == Len(log[r])
        IN  /\ log' = [log EXCEPT ![r][last].att = Append(@, outcome),
                                  ![r][last].recs = chunk_data]
            /\ IF ends
               THEN /\ all_data' = [all_data EXCEPT ![r] = Extend(@, chunk_data)]
                    /\ i' = [i EXCEPT ![r] = NextStart(@)]
                    /\ pc' = [pc EXCEPT ![r] = "loop"]
                    /\ UNCHANGED attempt
               ELSE /\ attempt' = [attempt EXCEPT ![r] = @ + 1]
                    /\ pc' = [pc EXCEPT ![r] = "configure"]
                    /\ UNCHANGED <<all_data, i>>
    /\ keys_used' = [keys_used EXCEPT ![r] = @ \cup {configured_key}]
    /\ effects' = [effects EXCEPT ![r] = @ \cup {"generate"}]
    /\ UNCHANGED <<req, fs, configured_key, service, num_options, full_text, resp,
                   removed, writer_fault, text, chunks>>

\* lines 96-123 and the route's last lines (156-164, 178-186): the NoData
\* check, the table and its serialization, and the response
Build(r) ==
    /\ pc[r] = "build"
    /\ LET order == ColumnOrder(num_options[r])
           reaches_writer == ~NoData(all_data[r]) /\ order.ok
       IN  \E written \in IF reaches_writer THEN BOOLEAN ELSE {TRUE} :
             /\ writer_fault' = [writer_fault EXCEPT ![r] = ~written]
             /\ IF NoData(all_data[r])
                THEN Respond(r, ErrorResp(500, NoDataMsg))
                ELSE IF ~order.ok \/ ~written
                THEN Respond(r, ErrorResp(500, ExcelErrorMsg))
                ELSE Respond(r, FileResp(Table(order.order, all_data[r])))
    /\ UNCHANGED <<req, fs, configured_key, service, num_options, full_text, i, attempt,
                   all_data, log, effects, keys_used, removed, text, chunks>>

\* ------------------------------------------------------------ specifications
\* the state before any handler has run
InitCommon ==
    /\ fs = [p \in Paths |-> NoFile]
    /\ configured_key = ""
    /\ num_options = [r \in Reqs |-> 0]
    /\ i = [r \in Reqs |-> 0]
    /\ attempt = [r \in Reqs |-> 0]
    /\ all_data = [r \in Reqs |-> <<>>]
    /\ resp = [r \in Reqs |-> NoResp]
    /\ log = [r \in Reqs |-> <<>>]
    /\ effects = [r \in Reqs |-> {}]
    /\ keys_used = [r \in Reqs |-> {}]
    /\ removed = [r \in Reqs |-> {}]
    /\ writer_fault = [r \in Reqs |-> FALSE]
    /\ chunks = <<>>

\* one request of either route; the second handler never runs
Init ==
    /\ InitCommon
    /\ \E q \in PdfRequests(1) \cup TextRequests(1) :
         req = [r \in Reqs |-> IF r = 1 THEN q ELSE NoRequest]
    /\ pc = [r \in Reqs |-> IF r = 1 THEN "start" ELSE "idle"]
    /\ service = Replies
    /\ full_text = [r \in Reqs |-> NoText]
    /\ text = <<>>

Next ==
    \E r \in Reqs :
        \/ PdfRouteEntry(r)
        \/ PdfSave(r)
        \/ PdfExtract(r)
        \/ PdfRemove(r)
        \/ TextRouteEntry(r)
        \/ LoopHead(r)
        \/ Configure(r)
        \/ Generate(r)
        \/ Build(r)

Spec == Init /\ [][Next]_vars

\* two concurrent uploads, each readable, each with its own credential
InitConc ==
    /\ InitCommon
    /\ req \in [Reqs -> UNION {ConcRequests(r) : r \in Reqs}]
    /\ \A r \in Reqs : req[r] \in ConcRequests(r)
    /\ pc = [r \in Reqs |-> "start"]
    /\ service = ConcReplies
    /\ full_text = [r \in Reqs |-> NoText]
    /\ text = <<>>

\* the handlers of the two requests, interleaved at their external calls
NextConc ==
    \E r \in Reqs :
        \/ PdfRouteEntry(r)
        \/ PdfSave(r)
        \/ PdfExtract(r)
        \/ PdfRemove(r)
        \/ LoopHead(r)
        \/ Configure(r)
        \/ Generate(r)
        \/ Build(r)

SpecConc == InitConc /\ [][NextConc]_vars

\* ------------------------------------------------------------ the chunk loop
\* a slice that runs one character into the next chunk
SliceOverlap(s, a, b) == SubSeq(s, Min(a, Len(s)) + 1, Min(b + 1, Len(s)))

\* Python s[a:b] for 0 <= a <= b: both ends are clamped to the length
Slice(s, a, b) == SubSeq(s, Min(a, Len(s)) + 1, Min(b, Len(s)))

\* texts of SpecChunk: every thousand up to MaxKilo thousands, one more and
\* one less (0, 1, 2999, 3000, 3001, 6000, 7000, ... characters)
ChunkTextLens == {1000 * k + d : k \in 0..MaxKilo, d \in {0, 1, 999}}

\* the character at position k: its position (no two alike), or a period of
\* seven that no chunk boundary lines up with
CharAt(pattern, k) == IF pattern = "stamp" THEN k ELSE k % 7

\* lines 90-91: one iteration of the loop, the chunk being what line 92 hands
\* to call_gemini_api
ChunkStep ==
    /\ pc[1] = "chunking"
    /\ IF InRange(i[1], Len(text))
       THEN /\ chunks' = Append(chunks, Slice(text, i[1], i[1] + chunk_size))
            /\ i' = [i EXCEPT ![1] = NextStart(@)]
            /\ UNCHANGED pc
       ELSE /\ pc' = [pc EXCEPT ![1] = "chunked"]
            /\ UNCHANGED <<chunks, i>>
    /\ UNCHANGED <<req, fs, configured_key, service, num_options, full_text, attempt,
                   all_data, resp, log, effects, keys_used, removed, writer_fault, text>>

\* a text in the hands of process_text_and_create_excel, no chunk taken yet
InitChunk ==
    /\ InitCommon
    /\ req = [r \in Reqs |-> NoRequest]
    /\ service = {}
    /\ pc = [r \in Reqs |-> IF r = 1 THEN "chunking" ELSE "idle"]
    /\ \E n \in ChunkTextLens, pattern \in {"stamp", "period"} :
         /\ text = [k \in 1..n |-> CharAt(pattern, k)]
         /\ full_text = [r \in Reqs |-> IF r = 1 THEN [owner |-> 1, len |-> n] ELSE NoText]

NextChunk == ChunkStep

SpecChunk == InitChunk /\ [][NextChunk]_vars

\* ------------------------------------------------------------------- claims
Done(r) == pc[r] = "done"

\* request r went into process_text_and_create_excel and has been answered
Processed(r) == Done(r) /\ log[r] # <<>>

\* the per-chunk results of r, in chunk order
ChunkResults(r) == [k \in 1..Len(log[r]) |-> log[r][k].recs]

\* number of chunks of a text of n characters
NumChunks(n) == (n + chunk_size - 1) \div chunk_size

FiveOptionColumns ==
    <<"S.No", "question", "option_a", "option_b", "option_c", "option_d", "option_e",
      "correct_answer", "explanation", "topic", "chapter", "subject">>

\* C1: a request with numOptions=4 in which some chunk yields records is
\* answered with a result table, and the table has no option_e column.
C1_FourOptionTable ==
    \A r \in Reqs :
        (/\ Processed(r)
         /\ req[r].numOptions = "4"
         /\ \E k \in 1..Len(log[r]) : log[r][k].recs # <<>>
         /\ ~writer_fault[r])
        => (resp[r].kind = "file" /\ ~Contains(resp[r].cols, "option_e"))

\* C2: for numOptions=5 and records that carry every field, the columns of
\* the table are S.No, question, option_a .. option_e, correct_answer,
\* explanation, topic, chapter, subject, in this order.
C2_FiveOptionColumnOrder ==
    \A r \in Reqs :
        (/\ Processed(r)
         /\ num_options[r] = 5
         /\ resp[r].kind = "file"
         /\ \A k \in 1..Len(all_data[r]) : all_data[r][k].keys = Keys5)
        => resp[r].cols = FiveOptionColumns

\* C3: every request ends in a response the handler built (an {error: message}
\* body with an error status, or the file); no exception leaves the handler.
C3_NoUnhandledException ==
    \A r \in Reqs :
        Done(r) => (\/ resp[r].kind = "file"
                    \/ (resp[r].kind = "json" /\ resp[r].status \in {400, 500}
                        /\ resp[r].error # ""))

\* the request lacks its document (PDF route), its text (text route) or the key
LacksInput(r) ==
    \/ req[r].route = "pdf" /\ (~req[r].hasPdf \/ req[r].apiKey = "")
    \/ req[r].route = "text" /\ req[r].bodyOk /\ (Falsy(req[r].text) \/ req[r].apiKey = "")

MissingInputMsg(r) ==
    IF req[r].route = "text" THEN NoTextOrKeyMsg
    ELSE IF ~req[r].hasPdf THEN NoPdfMsg ELSE NoKeyMsg

\* C4: a request that lacks the document, the text or the API key is answered
\* with the corresponding 400 error, and performs no generation call, no text
\* extraction and no file write.
C4_MissingInputRejected ==
    \A r \in Reqs :
        LacksInput(r) =>
            /\ effects[r] = {}
            /\ Done(r) => resp[r] = ErrorResp(400, MissingInputMsg(r))

\* C5: every chunk is attempted at most 3 times and no attempt follows one
\* whose output parsed; a chunk whose 3 attempts all failed contributes no
\* record; and an answered request has processed every chunk of its text, in
\* order, all_data being the concatenation of the chunks' records, which are
\* the rows of the table when one is returned.
C5_RetryAndIsolation ==
    \A r \in Reqs :
        /\ \A k \in 1..Len(log[r]) :
             LET e == log[r][k]
             IN  /\ Len(e.att) <= 3
                 /\ \A j \in 1..(Len(e.att) - 1) : e.att[j] = "exc"
                 /\ (Len(e.att) = 3 /\ e.att[3] = "exc") => e.recs = <<>>
        /\ Processed(r) =>
             /\ Len(log[r]) = NumChunks(full_text[r].len)
             /\ \A k \in 1..Len(log[r]) :
                  log[r][k].start = (k - 1) * chunk_size /\ log[r][k].att # <<>>
             /\ all_data[r] = Concat(ChunkResults(r))
        /\ resp[r].kind = "file" =>
             /\ Len(resp[r].rows) = Len(Concat(ChunkResults(r)))
             /\ \A k \in 1..Len(resp[r].rows) :
                  resp[r].rows[k].src = Concat(ChunkResults(r))[k].src

\* C5 witness: the first chunk failed three times, the second one gave
\* records, and they are the rows of the returned table.
C5_Witness ==
    /\ Processed(1)
    /\ Len(log[1]) >= 2
    /\ log[1][1].att = <<"exc", "exc", "exc">>
    /\ log[1][2].recs # <<>>
    /\ resp[1].kind = "file"
    /\ \A k \in 1..Len(resp[1].rows) : resp[1].rows[k].src = chunk_size

\* C6: an answered request whose per-chunk results concatenate to nothing
\* gets the NoData error with status 500, never a file; and the NoData error
\* is given only when that concatenation is empty.
C6_NoDataIffEmpty ==
    \A r \in Reqs :
        /\ Processed(r) =>
             ((Concat(ChunkResults(r)) = <<>>) <=> (resp[r] = ErrorResp(500, NoDataMsg)))
        /\ resp[r].kind = "file" => resp[r].rows # <<>>
        /\ resp[r].error = NoDataMsg => (Processed(r) /\ Concat(ChunkResults(r)) = <<>>)

\* C6 witness: two chunks, one that failed every attempt and one whose reply
\* held no record, answered with the NoData error.
C6_Witness ==
    /\ Processed(1)
    /\ Len(log[1]) = 2
    /\ log[1][1].att = <<"exc", "exc", "exc">>
    /\ log[1][2].att = <<"parsed">>
    /\ resp[1] = ErrorResp(500, NoDataMsg)

\* C7: in the PDF route, a request that wrote its upload to /tmp has ended
\* only after the file was removed, on every path.
C7_UploadRemoved ==
    \A r \in Reqs :
        (Done(r) /\ "write" \in effects[r]) => fs[Filepath(req[r].filename)] = NoFile

\* C8: under any interleaving of two PDF-route requests, each request finds
\* its own upload at its path from save to remove, extracts the text of its
\* own document, removes only its own file, and is answered as when alone
\* (a readable document is never answered with the extraction error or with
\* a missing-file fault).
C8_UploadsIsolated ==
    \A r \in Reqs :
        /\ pc[r] \in {"extract", "remove"} => fs[Filepath(req[r].filename)] = req[r].doc
        /\ (pc[r] \notin {"start", "save", "extract"} /\ "extract" \in effects[r])
             => full_text[r] = extract_text_from_pdf(req[r].doc)
        /\ removed[r] \subseteq {r}
        /\ (Done(r) /\ ~Falsy(extract_text_from_pdf(req[r].doc)))
             => resp[r].error \notin {NoExtractMsg, "FileNotFoundError"}

\* C9: every generation-service call of a request runs under the credential
\* of that request.
C9_OwnCredential ==
    \A r \in Reqs : keys_used[r] \subseteq {req[r].apiKey}

ChunkLens == [k \in 1..Len(chunks) |-> Len(chunks[k])]

\* C10: the chunks are consecutive, non-overlapping spans taken left to right
\* (their concatenation is the prefix of the text read so far, and the whole
\* text once the loop has ended); chunk k is the span that starts at
\* (k-1)*chunk_size, a function of the text alone; every chunk is non-empty,
\* every chunk but the last has exactly chunk_size characters and the last
\* between 1 and chunk_size; 7000 characters give 3000, 3000, 1000.
C10_ChunksPartitionText ==
    LET n == Len(text)
        m == Len(chunks)
    IN  /\ Concat(chunks) = SubSeq(text, 1, Min(m * chunk_size, n))
        /\ pc[1] = "chunked" => Concat(chunks) = text
        /\ \A k \in 1..m :
             /\ chunks[k] = SubSeq(text, (k - 1) * chunk_size + 1, Min(k * chunk_size, n))
             /\ Len(chunks[k]) >= 1
             /\ Len(chunks[k]) <= chunk_size
             /\ k < m => Len(chunks[k]) = chunk_size
        /\ (pc[1] = "chunked" /\ n = 7000) => ChunkLens = <<3000, 3000, 1000>>

\* C10 witness: the loop has ended on a text of 7000 characters, in three
\* chunks of 3000, 3000 and 1000 characters.
C10_Witness ==
    /\ pc[1] = "chunked"
    /\ Len(text) = 7000
    /\ ChunkLens = <<3000, 3000, 1000>>
    /\ Concat(chunks) = text

====
